---- MODULE Spec2Model ----
(***************************************************************************)
(* FASTA QC Reporter (app.py): one run of the script, from the two input   *)
(* widgets to the summary, the displayed table and the CSV download.       *)
(*                                                                         *)
(* Strings are sequences of one-character strings.  Percentages are kept   *)
(* in hundredths (round(x, 2) * 100) and entropy in thousandths            *)
(* (round(x, 3) * 1000), so that every comparison is integer arithmetic.   *)
(***************************************************************************)
EXTENDS Integers, Sequences, FiniteSets, TLC

VARIABLES pc, fasta_text, uploaded_file, fasta_input, message,
          min_len, max_len, max_n_pct, min_entropy, max_homopolymer,
          records, hash_to_names, rows, df, summary, table, csv_rows

vars == <<pc, fasta_text, uploaded_file, fasta_input, message,
          min_len, max_len, max_n_pct, min_entropy, max_homopolymer,
          records, hash_to_names, rows, df, summary, table, csv_rows>>

---------------------------------------------------------------------------
(* Bounds of the checked input families.                                   *)

MaxTextLen == 7
MaxChunks == 4
MaxSeqLen == 4

---------------------------------------------------------------------------
(* Characters and the str methods the script uses.                         *)

\* ord(): the code points of the characters that occur in the model.
Ord(c) ==
    CASE c = "\t" -> 9   [] c = "\n" -> 10  [] c = "\r" -> 13
      [] c = " " -> 32   [] c = ">" -> 62
      [] c = "A" -> 65   [] c = "C" -> 67   [] c = "D" -> 68
      [] c = "E" -> 69   [] c = "G" -> 71   [] c = "M" -> 77
      [] c = "N" -> 78   [] c = "T" -> 84   [] c = "U" -> 85
      [] c = "X" -> 88   [] c = "Y" -> 89
      [] c = "a" -> 97   [] c = "c" -> 99   [] c = "d" -> 100
      [] c = "e" -> 101  [] c = "m" -> 109  [] c = "n" -> 110
      [] c = "x" -> 120  [] c = "y" -> 121  [] c = "|" -> 124

Chars == {"\t", "\n", "\r", " ", ">", "A", "C", "D", "E", "G", "M", "N", "T",
          "U", "X", "Y", "a", "c", "d", "e", "m", "n", "x", "y", "|"}

\* str.isspace() on one character.
IsSpace(c) == c \in {" ", "\t", "\n", "\r"}

\* str.upper() on one character.
UpperChar(c) ==
    CASE c = "a" -> <<"A">> [] c = "c" -> <<"C">> [] c = "d" -> <<"D">>
      [] c = "e" -> <<"E">> [] c = "m" -> <<"M">> [] c = "n" -> <<"N">>
      [] c = "x" -> <<"X">> [] c = "y" -> <<"Y">>
      [] OTHER -> <<c>>

RECURSIVE upper(_)
upper(s) == IF s = <<>> THEN <<>> ELSE UpperChar(Head(s)) \o upper(Tail(s))

\* "".join(s.split()): s without its whitespace characters.
RECURSIVE RemoveSpace(_)
RemoveSpace(s) ==
    IF s = <<>> THEN <<>>
    ELSE IF IsSpace(Head(s)) THEN RemoveSpace(Tail(s))
    ELSE <<Head(s)>> \o RemoveSpace(Tail(s))

RECURSIVE lstrip(_)
lstrip(s) == IF s # <<>> /\ IsSpace(Head(s)) THEN lstrip(Tail(s)) ELSE s

RECURSIVE rstrip(_)
rstrip(s) ==
    IF s # <<>> /\ IsSpace(s[Len(s)]) THEN rstrip(SubSeq(s, 1, Len(s) - 1)) ELSE s

strip(s) == rstrip(lstrip(s))

\* str.splitlines(): "\n", "\r" and "\r\n" end a line; a trailing line break
\* opens no further line.
RECURSIVE SplitFrom(_, _, _, _)
SplitFrom(text, i, cur, acc) ==
    IF i > Len(text) THEN (IF cur = <<>> THEN acc ELSE Append(acc, cur))
    ELSE IF text[i] = "\r" /\ i < Len(text) /\ text[i + 1] = "\n"
         THEN SplitFrom(text, i + 2, <<>>, Append(acc, cur))
    ELSE IF text[i] \in {"\n", "\r"}
         THEN SplitFrom(text, i + 1, <<>>, Append(acc, cur))
    ELSE SplitFrom(text, i + 1, Append(cur, text[i]), acc)

splitlines(text) == SplitFrom(text, 1, <<>>, <<>>)

\* "".join(parts)
RECURSIVE Concat(_)
Concat(parts) == IF parts = <<>> THEN <<>> ELSE Head(parts) \o Concat(Tail(parts))

\* sep.join(parts)
RECURSIVE Join(_, _)
Join(sep, parts) ==
    IF parts = <<>> THEN <<>>
    ELSE IF Len(parts) = 1 THEN Head(parts)
    ELSE Head(parts) \o sep \o Join(sep, Tail(parts))

\* Python's < on str: lexicographic by code point, a proper prefix is smaller.
RECURSIVE StrLess(_, _)
StrLess(s, t) ==
    IF t = <<>> THEN FALSE
    ELSE IF s = <<>> THEN TRUE
    ELSE IF Head(s) = Head(t) THEN StrLess(Tail(s), Tail(t))
    ELSE Ord(Head(s)) < Ord(Head(t))

---------------------------------------------------------------------------
(* Helpers of app.py.                                                      *)

Unnamed == <<"U", "n", "n", "a", "m", "e", "d">>

clean(seq) == RemoveSpace(upper(seq))

\* HeaderName without the strip and without the "Unnamed" default.
HeaderNameRaw(line) == Tail(line)

\* header = line[1:].strip() or "Unnamed"
HeaderName(line) ==
    LET h == strip(Tail(line)) IN IF h = <<>> THEN Unnamed ELSE h

\* ParseLoop that keeps seq_parts across a header line, so that lines before
\* the first header, and the previous record's lines, leak into a record.
RECURSIVE ParseLoopKeep(_, _, _, _, _, _)
ParseLoopKeep(lines, i, has_header, header, seq_parts, recs) ==
    IF i > Len(lines)
    THEN IF has_header
         THEN Append(recs, [name |-> header, seq |-> clean(Concat(seq_parts))])
         ELSE recs
    ELSE LET line == strip(lines[i]) IN
         IF line = <<>>
         THEN ParseLoopKeep(lines, i + 1, has_header, header, seq_parts, recs)
         ELSE IF Head(line) = ">"
         THEN ParseLoopKeep(lines, i + 1, TRUE, HeaderName(line), seq_parts,
                            IF has_header
                            THEN Append(recs, [name |-> header,
                                               seq |-> clean(Concat(seq_parts))])
                            ELSE recs)
         ELSE ParseLoopKeep(lines, i + 1, has_header, header,
                            Append(seq_parts, line), recs)

\* The loop of parse_fasta over the lines from index i on.  has_header is
\* "header is not None".
RECURSIVE ParseLoop(_, _, _, _, _, _)
ParseLoop(lines, i, has_header, header, seq_parts, recs) ==
    IF i > Len(lines)
    THEN IF has_header
         THEN Append(recs, [name |-> header, seq |-> clean(Concat(seq_parts))])
         ELSE recs
    ELSE LET line == strip(lines[i]) IN
         IF line = <<>>
         THEN ParseLoop(lines, i + 1, has_header, header, seq_parts, recs)
         ELSE IF Head(line) = ">"
         THEN ParseLoop(lines, i + 1, TRUE, HeaderName(line), <<>>,
                        IF has_header
                        THEN Append(recs, [name |-> header,
                                           seq |-> clean(Concat(seq_parts))])
                        ELSE recs)
         ELSE ParseLoop(lines, i + 1, has_header, header,
                        Append(seq_parts, line), recs)

parse_fasta(text) == ParseLoop(splitlines(text), 1, FALSE, <<>>, <<>>, <<>>)

---------------------------------------------------------------------------
(* Metrics.                                                                *)

VALID == {"A", "T", "G", "C", "N"}
DNA_ONLY == {"A", "T", "G", "C"}

\* s.count(c)
RECURSIVE Count(_, _)
Count(s, c) ==
    IF s = <<>> THEN 0
    ELSE (IF Head(s) = c THEN 1 ELSE 0) + Count(Tail(s), c)

\* [b for b in seq if b in DNA_ONLY]
RECURSIVE Core(_)
Core(s) ==
    IF s = <<>> THEN <<>>
    ELSE IF Head(s) \in DNA_ONLY THEN <<Head(s)>> \o Core(Tail(s))
    ELSE Core(Tail(s))

\* round(num / den, k) scaled by 10^k, the scaling already folded into num;
\* ties go to the even neighbour, as round() does on an exactly
\* representable float.
Round(num, den) ==
    LET q == num \div den
        r == num % den
    IN  IF 2 * r < den THEN q
        ELSE IF 2 * r > den THEN q + 1
        ELSE IF q % 2 = 0 THEN q ELSE q + 1

\* gc_percent, in hundredths of a percent.
gc_percent(seq) ==
    LET s == Core(seq) IN
    IF s = <<>> THEN 0
    ELSE Round((Count(s, "G") + Count(s, "C")) * 10000, Len(s))

\* math.log2 on the counts that occur, in millionths of a bit.
Log2Micro(k) ==
    CASE k = 1 -> 0
      [] k = 2 -> 1000000
      [] k = 3 -> 1584963
      [] k = 4 -> 2000000
      [] k = 5 -> 2321928
      [] k = 6 -> 2584963
      [] k = 7 -> 2807355
      [] k = 8 -> 3000000
      [] k = 9 -> 3169925
      [] k = 10 -> 3321928
      [] k = 11 -> 3459432
      [] k = 12 -> 3584963
      [] k = 13 -> 3700440
      [] k = 14 -> 3807355
      [] k = 15 -> 3906891
      [] k = 16 -> 4000000

\* One term of -sum(p * log2(p)) times n, with p = k / n:  k * (log2 n - log2 k).
EntropyTerm(k, n) == IF k > 0 THEN k * (Log2Micro(n) - Log2Micro(k)) ELSE 0

\* shannon_entropy, in thousandths of a bit.
shannon_entropy(seq) ==
    LET s == Core(seq)
        n == Len(s)
    IN  IF s = <<>> THEN 0
        ELSE Round(EntropyTerm(Count(s, "A"), n) + EntropyTerm(Count(s, "T"), n)
                   + EntropyTerm(Count(s, "G"), n) + EntropyTerm(Count(s, "C"), n),
                   n * 1000)

\* HomoLoop with a new run counted from 0 instead of 1.
RECURSIVE HomoLoopFromZero(_, _, _, _, _, _)
HomoLoopFromZero(seq, i, has_prev, prev, cur, best) ==
    IF i > Len(seq) THEN best
    ELSE LET ch == seq[i]
             cur2 == IF has_prev /\ ch = prev THEN cur + 1 ELSE 0
         IN  HomoLoopFromZero(seq, i + 1, TRUE, ch, cur2,
                              IF cur2 > best THEN cur2 ELSE best)

\* The loop of longest_homopolymer from index i on; prev = "" is has_prev = FALSE.
RECURSIVE HomoLoop(_, _, _, _, _, _)
HomoLoop(seq, i, has_prev, prev, cur, best) ==
    IF i > Len(seq) THEN best
    ELSE LET ch == seq[i]
             cur2 == IF has_prev /\ ch = prev THEN cur + 1 ELSE 1
         IN  HomoLoop(seq, i + 1, TRUE, ch, cur2,
                      IF cur2 > best THEN cur2 ELSE best)

longest_homopolymer(seq) == HomoLoop(seq, 1, FALSE, "", 0, 0)

\* hashlib.md5(...).hexdigest(): equal for equal sequences and taken to be
\* collision-free, so the digest is represented by the string it digests.
md5_hash(seq) == <<"md5", seq>>

\* sorted(chars): ascending code points.
RECURSIVE SortedChars(_)
SortedChars(S) ==
    IF S = {} THEN <<>>
    ELSE LET c == CHOOSE x \in S : \A y \in S : Ord(x) <= Ord(y)
         IN  <<c>> \o SortedChars(S \ {c})

\* sorted(set(seq) - VALID)
InvalidChars(seq) == SortedChars({seq[i] : i \in 1..Len(seq)} \ VALID)

\* n_pct, in hundredths of a percent.
NPercent(seq) ==
    IF Len(seq) # 0 THEN Round(Count(seq, "N") * 10000, Len(seq)) ELSE 0

---------------------------------------------------------------------------
(* Classification of one record (the body of the loop over records).       *)

Thresholds ==
    [min_len |-> min_len, max_len |-> max_len, max_n_pct |-> max_n_pct,
     min_entropy |-> min_entropy, max_homopolymer |-> max_homopolymer]

\* QCFlags with the length and homopolymer comparisons non-strict.
QCFlagsNonStrict(invalid, length, n_pct, ent, homo, th) ==
    (IF invalid # <<>> THEN <<"INVALID_CHARS">> ELSE <<>>)
    \o (IF length <= th.min_len THEN <<"TOO_SHORT">> ELSE <<>>)
    \o (IF length > th.max_len THEN <<"TOO_LONG">> ELSE <<>>)
    \o (IF n_pct > th.max_n_pct THEN <<"TOO_MANY_N">> ELSE <<>>)
    \o (IF ent < th.min_entropy THEN <<"LOW_COMPLEXITY">> ELSE <<>>)
    \o (IF homo >= th.max_homopolymer THEN <<"HOMOPOLYMER_RUN">> ELSE <<>>)

\* flags, in the order of the appends.
QCFlags(invalid, length, n_pct, ent, homo, th) ==
    (IF invalid # <<>> THEN <<"INVALID_CHARS">> ELSE <<>>)
    \o (IF length < th.min_len THEN <<"TOO_SHORT">> ELSE <<>>)
    \o (IF length > th.max_len THEN <<"TOO_LONG">> ELSE <<>>)
    \o (IF n_pct > th.max_n_pct THEN <<"TOO_MANY_N">> ELSE <<>>)
    \o (IF ent < th.min_entropy THEN <<"LOW_COMPLEXITY">> ELSE <<>>)
    \o (IF homo > th.max_homopolymer THEN <<"HOMOPOLYMER_RUN">> ELSE <<>>)

\* Status that tolerates one flag.
StatusLax(flags) == IF Len(flags) <= 1 THEN "PASS" ELSE "FAIL"

Status(flags) == IF Len(flags) = 0 THEN "PASS" ELSE "FAIL"

\* The dict appended to rows; flags holds the names that ",".join writes.
QCRow(name, seq, th) ==
    LET length == Len(seq)
        invalid == InvalidChars(seq)
        n_pct == NPercent(seq)
        ent == shannon_entropy(seq)
        homo == longest_homopolymer(seq)
        flags == QCFlags(invalid, length, n_pct, ent, homo, th)
    IN  [sequence_name |-> name,
         length |-> length,
         gc_percent |-> gc_percent(seq),
         n_count |-> Count(seq, "N"),
         n_percent |-> n_pct,
         entropy |-> ent,
         max_homopolymer |-> homo,
         invalid_chars |-> invalid,
         md5 |-> md5_hash(seq),
         status |-> Status(flags),
         flags |-> flags]

\* hash_to_names.setdefault(h, []).append(name); entries keep insertion order.
SetDefaultAppend(h2n, h, name) ==
    IF \E k \in 1..Len(h2n) : h2n[k].h = h
    THEN [k \in 1..Len(h2n) |->
            IF h2n[k].h = h
            THEN [h |-> h, names |-> Append(h2n[k].names, name)]
            ELSE h2n[k]]
    ELSE Append(h2n, [h |-> h, names |-> <<name>>])

---------------------------------------------------------------------------
(* Duplicate annotation.                                                   *)

Pipe == <<"|">>

SeqToSet(s) == {s[i] : i \in 1..Len(s)}

\* The loop that fills dup_map, from group k on; a later assignment to the
\* same key replaces the earlier one.
RECURSIVE DupMapLoop(_, _, _)
DupMapLoop(h2n, k, m) ==
    IF k > Len(h2n) THEN m
    ELSE LET names == h2n[k].names IN
         IF Len(names) > 1
         THEN DupMapLoop(h2n, k + 1,
                  [n \in (DOMAIN m) \cup SeqToSet(names) |->
                      IF n \in SeqToSet(names) THEN Join(Pipe, names) ELSE m[n]])
         ELSE DupMapLoop(h2n, k + 1, m)

EmptyMap == [n \in {} |-> <<>>]

DupMap(h2n) == DupMapLoop(h2n, 1, EmptyMap)

\* df["sequence_name"].map(dup_map).fillna("")
Duplicates(name, m) == IF name \in DOMAIN m THEN m[name] ELSE <<>>

WithDuplicates(rs, m) ==
    [k \in 1..Len(rs) |->
        [sequence_name |-> rs[k].sequence_name,
         length |-> rs[k].length,
         gc_percent |-> rs[k].gc_percent,
         n_count |-> rs[k].n_count,
         n_percent |-> rs[k].n_percent,
         entropy |-> rs[k].entropy,
         max_homopolymer |-> rs[k].max_homopolymer,
         invalid_chars |-> rs[k].invalid_chars,
         md5 |-> rs[k].md5,
         status |-> rs[k].status,
         flags |-> rs[k].flags,
         duplicates |-> Duplicates(rs[k].sequence_name, m)]]

---------------------------------------------------------------------------
(* Output.                                                                 *)

\* Row order of sort_values(["status", "sequence_name"]).
RowLess(a, b) ==
    \/ a.status = "FAIL" /\ b.status = "PASS"
    \/ a.status = b.status /\ StrLess(a.sequence_name, b.sequence_name)

\* Stable insertion of r: after every row that is not greater than it.
RECURSIVE InsertRow(_, _)
InsertRow(sorted, r) ==
    IF sorted = <<>> THEN <<r>>
    ELSE IF RowLess(r, Head(sorted)) THEN <<r>> \o sorted
    ELSE <<Head(sorted)>> \o InsertRow(Tail(sorted), r)

RECURSIVE SortFrom(_, _, _)
SortFrom(d, k, acc) ==
    IF k > Len(d) THEN acc ELSE SortFrom(d, k + 1, InsertRow(acc, d[k]))

sort_values(d) == SortFrom(d, 1, <<>>)

\* CountStatus that counts the distinct names with status s, not the rows.
CountStatusByName(d, s) ==
    Cardinality({d[k].sequence_name : k \in {j \in 1..Len(d) : d[j].status = s}})

\* int((df["status"] == s).sum())
RECURSIVE CountStatus(_, _)
CountStatus(d, s) ==
    IF d = <<>> THEN 0
    ELSE (IF Head(d).status = s THEN 1 ELSE 0) + CountStatus(Tail(d), s)

---------------------------------------------------------------------------
(* The inputs of one run.                                                  *)

NoFile == [present |-> FALSE, bytes |-> <<>>]
File(b) == [present |-> TRUE, bytes |-> b]

\* bytes.decode("utf-8", errors="ignore") on ASCII bytes and on the bytes
\* 0x80 and 0xFF, which begin no UTF-8 sequence and are dropped.
RECURSIVE Decode(_)
Decode(b) ==
    IF b = <<>> THEN <<>>
    ELSE IF Head(b) >= 128 THEN Decode(Tail(b))
    ELSE <<CHOOSE c \in Chars : Ord(c) = Head(b)>> \o Decode(Tail(b))

\* The values of the sidebar widgets when untouched.
DefaultThresholds ==
    [min_len |-> 50, max_len |-> 500000, max_n_pct |-> 500,
     min_entropy |-> 1200, max_homopolymer |-> 10]

\* Every widget at its most permissive setting.
LenientThresholds ==
    [min_len |-> 1, max_len |-> 500000, max_n_pct |-> 10000,
     min_entropy |-> 0, max_homopolymer |-> 10]

\* Settings that put short sequences on both sides of every rule.
ThresholdGrid ==
    [min_len : {1, 3}, max_len : {2, 500000}, max_n_pct : {0, 5000},
     min_entropy : {0, 1000, 1200}, max_homopolymer : {1, 2}]

\* All strings over alphabet of length at most n.
StringsUpTo(alphabet, n) == UNION {[1..k -> alphabet] : k \in 0..n}

\* Texts of at most n chunks, each one of the given strings.
RECURSIVE ChunkTexts(_, _)
ChunkTexts(chunks, n) ==
    IF n = 0 THEN {<<>>}
    ELSE LET shorter == ChunkTexts(chunks, n - 1)
         IN  shorter \cup {t \o c : t \in shorter, c \in chunks}

ParseAlphabet == {">", "a", "C", " ", "\n"}

RowAlphabet == {"A", "C", "N", "x"}

FastaChunks ==
    { <<">", "\n">>,
      <<">", "x", "\n">>,
      <<">", " ", "\n", "a", "c", "\n">>,
      <<">", "y", "\n", "A", "C", "\n">>,
      <<"A", "C", "\n">> }

BlankPastes == {<<>>, <<" ", "\n">>}

UploadSamples ==
    { <<62, 120, 13, 10, 65, 255, 67, 10>>,
      <<65, 67, 128, 10>> }

\* The widget states of a run: a pasted text with no upload, or an upload
\* next to a blank or a one-header paste.
Inputs(texts) ==
    {[text |-> t, file |-> NoFile] : t \in texts \cup BlankPastes}
    \cup {[text |-> t, file |-> File(b)] :
             t \in BlankPastes \cup {<<">">>}, b \in UploadSamples}

InitWith(inputs, thresholds) ==
    /\ pc = "input"
    /\ \E inp \in inputs :
          /\ fasta_text = inp.text
          /\ uploaded_file = inp.file
    /\ \E th \in thresholds :
          /\ min_len = th.min_len
          /\ max_len = th.max_len
          /\ max_n_pct = th.max_n_pct
          /\ min_entropy = th.min_entropy
          /\ max_homopolymer = th.max_homopolymer
    /\ fasta_input = <<>>
    /\ message = "none"
    /\ records = <<>>
    /\ hash_to_names = <<>>
    /\ rows = <<>>
    /\ df = <<>>
    /\ summary = [shown |-> FALSE, pass_count |-> 0, fail_count |-> 0, total |-> 0]
    /\ table = <<>>
    /\ csv_rows = <<>>

\* Multi-record FASTA texts under two threshold settings.
Init ==
    InitWith(Inputs(ChunkTexts(FastaChunks, MaxChunks)),
             {DefaultThresholds, LenientThresholds})

\* Arbitrary short texts under the default thresholds.
InitParse ==
    InitWith(Inputs(StringsUpTo(ParseAlphabet, MaxTextLen)), {DefaultThresholds})

\* One record with an arbitrary short sequence under a grid of thresholds.
InitRow ==
    InitWith(Inputs({<<">", "x", "\n">> \o body :
                        body \in StringsUpTo(RowAlphabet, MaxSeqLen)}),
             ThresholdGrid)

---------------------------------------------------------------------------
(* The script, top to bottom.                                              *)

\* Lines 29-35: the pasted text wins, then the upload, else the run stops.
SelectInput ==
    /\ pc = "input"
    /\ IF strip(fasta_text) # <<>>
       THEN /\ fasta_input' = fasta_text
            /\ pc' = "parse"
            /\ UNCHANGED message
       ELSE IF uploaded_file.present
       THEN /\ fasta_input' = Decode(uploaded_file.bytes)
            /\ pc' = "parse"
            /\ UNCHANGED message
       ELSE /\ message' = "info_no_input"
            /\ pc' = "stopped"
            /\ UNCHANGED fasta_input
    /\ UNCHANGED <<fasta_text, uploaded_file, min_len, max_len, max_n_pct,
                   min_entropy, max_homopolymer, records, hash_to_names,
                   rows, df, summary, table, csv_rows>>

\* Parse without the check for an empty record list.
ParseNoStop ==
    /\ pc = "parse"
    /\ records' = parse_fasta(fasta_input)
    /\ pc' = "qc"
    /\ UNCHANGED <<fasta_text, uploaded_file, fasta_input, message, min_len,
                   max_len, max_n_pct, min_entropy, max_homopolymer,
                   hash_to_names, rows, df, summary, table, csv_rows>>

\* Lines 108-112: parse; with no record the error is shown and the run stops.
Parse ==
    /\ pc = "parse"
    /\ records' = parse_fasta(fasta_input)
    /\ IF records' = <<>>
       THEN /\ message' = "error_no_records"
            /\ pc' = "stopped"
       ELSE /\ pc' = "qc"
            /\ UNCHANGED message
    /\ UNCHANGED <<fasta_text, uploaded_file, fasta_input, min_len, max_len,
                   max_n_pct, min_entropy, max_homopolymer, hash_to_names,
                   rows, df, summary, table, csv_rows>>

\* Lines 118-158: one pass of the loop over records.
QCRecord ==
    /\ pc = "qc"
    /\ Len(rows) < Len(records)
    /\ LET rec == records[Len(rows) + 1] IN
          /\ hash_to_names' = SetDefaultAppend(hash_to_names, md5_hash(rec.seq), rec.name)
          /\ rows' = Append(rows, QCRow(rec.name, rec.seq, Thresholds))
    /\ UNCHANGED <<pc, fasta_text, uploaded_file, fasta_input, message, min_len,
                   max_len, max_n_pct, min_entropy, max_homopolymer, records,
                   df, summary, table, csv_rows>>

\* Lines 160-169: the frame of the rows, with the duplicates column.
MarkDuplicates ==
    /\ pc = "qc"
    /\ Len(rows) = Len(records)
    /\ df' = WithDuplicates(rows, DupMap(hash_to_names))
    /\ pc' = "output"
    /\ UNCHANGED <<fasta_text, uploaded_file, fasta_input, message, min_len,
                   max_len, max_n_pct, min_entropy, max_homopolymer, records,
                   hash_to_names, rows, summary, table, csv_rows>>

\* Lines 172-193: summary, displayed table, CSV download.
Output ==
    /\ pc = "output"
    /\ summary' = [shown |-> TRUE,
                   pass_count |-> CountStatus(df, "PASS"),
                   fail_count |-> CountStatus(df, "FAIL"),
                   total |-> Len(df)]
    /\ table' = sort_values(df)
    /\ csv_rows' = df
    /\ pc' = "done"
    /\ UNCHANGED <<fasta_text, uploaded_file, fasta_input, message, min_len,
                   max_len, max_n_pct, min_entropy, max_homopolymer, records,
                   hash_to_names, rows, df>>

Next == SelectInput \/ Parse \/ QCRecord \/ MarkDuplicates \/ Output

Spec == Init /\ [][Next]_vars

SpecParse == InitParse /\ [][Next]_vars

SpecRow == InitRow /\ [][Next]_vars

---------------------------------------------------------------------------
(* Vocabulary of the properties, stated on the input text and on the       *)
(* report and not through the helpers above.                               *)

\* The parser has run on fasta_input.
AfterParse ==
    \/ pc \in {"qc", "output", "done"}
    \/ pc = "stopped" /\ message # "info_no_input"

\* The report has been built (the duplicates column is filled in).
ReportBuilt == pc \in {"output", "done"}

InputLines == splitlines(fasta_input)

\* A header line: its first non-whitespace character is ">".
IsHeaderLine(line) ==
    \E k \in 1..Len(line) :
        /\ line[k] = ">"
        /\ \A j \in 1..(k - 1) : IsSpace(line[j])

HeaderIdx(lines) == {k \in 1..Len(lines) : IsHeaderLine(lines[k])}

\* Index of the i-th header line.
NthHeader(lines, i) ==
    CHOOSE h \in HeaderIdx(lines) :
        Cardinality({j \in HeaderIdx(lines) : j <= h}) = i

\* Index of the header line after header i, or one past the last line.
HeaderAfter(lines, i) ==
    IF i < Cardinality(HeaderIdx(lines)) THEN NthHeader(lines, i + 1)
    ELSE Len(lines) + 1

\* s from its first to its last non-whitespace character.
Trim(s) ==
    LET ns == {k \in 1..Len(s) : ~IsSpace(s[k])} IN
    IF ns = {} THEN <<>>
    ELSE SubSeq(s, CHOOSE k \in ns : \A j \in ns : k <= j,
                   CHOOSE k \in ns : \A j \in ns : k >= j)

\* The name a header line gives: the text after ">" trimmed, or "Unnamed".
NameOfHeaderLine(line) ==
    LET k == CHOOSE j \in 1..Len(line) :
                 line[j] = ">" /\ \A m \in 1..(j - 1) : IsSpace(line[m])
        t == Trim(SubSeq(line, k + 1, Len(line)))
    IN  IF t = <<>> THEN Unnamed ELSE t

\* The lines strictly between positions lo and hi, concatenated, without
\* whitespace, upper-cased.
BodyBetween(lines, lo, hi) ==
    LET raw == Concat([k \in 1..(hi - lo - 1) |-> lines[lo + k]])
        NotSpace(c) == ~IsSpace(c)
        kept == SelectSeq(raw, NotSpace)
    IN  Concat([k \in 1..Len(kept) |-> UpperChar(kept[k])])

\* Indices of the non-blank lines strictly between positions lo and hi.
BodyLines(lines, lo, hi) ==
    {k \in (lo + 1)..(hi - 1) : Trim(lines[k]) # <<>>}

\* C1: parse_fasta yields exactly one record per header line; the i-th record
\* carries the name of the i-th header line in file order (the text after
\* ">" trimmed, or "Unnamed" when that is empty); a header line with no body
\* line still yields a record, with an empty sequence.
C1_OneRecordPerHeader ==
    AfterParse =>
        LET lines == InputLines IN
        /\ Len(records) = Cardinality(HeaderIdx(lines))
        /\ \A i \in 1..Len(records) :
              /\ records[i].name = NameOfHeaderLine(lines[NthHeader(lines, i)])
              /\ BodyLines(lines, NthHeader(lines, i), HeaderAfter(lines, i)) = {}
                    => records[i].seq = <<>>

\* Two header lines, the first with an empty name and no body, the second
\* with a name that had to be trimmed.
C1_Witness ==
    /\ AfterParse
    /\ Len(records) = 2
    /\ records[1].name = Unnamed
    /\ records[1].seq = <<>>
    /\ records[2].name # Unnamed
    /\ Len(records[2].name) + 1 < Len(InputLines[NthHeader(InputLines, 2)])

\* C9: the sequence of each record is the in-order concatenation of the
\* non-blank, non-header lines between its header and the next header (or
\* the end of the input), upper-cased and without whitespace; lines before
\* the first header belong to no record, and a blank line ends no record.
C9_SequenceIsBodyLines ==
    AfterParse =>
        LET lines == InputLines IN
        \A i \in 1..Len(records) :
            records[i].seq =
                BodyBetween(lines, NthHeader(lines, i), HeaderAfter(lines, i))

\* A non-blank line before the first header, and a record whose body is two
\* lines, one of them in lower case.
C9_Witness ==
    /\ AfterParse
    /\ Len(records) >= 1
    /\ LET lines == InputLines IN
          /\ BodyLines(lines, 0, NthHeader(lines, 1)) # {}
          /\ \E i \in 1..Len(records) :
                /\ Cardinality(BodyLines(lines, NthHeader(lines, i),
                                         HeaderAfter(lines, i))) >= 2
                /\ records[i].seq = <<"C", "A">>

\* C4: when the input has no header line (parse_fasta returns no record) the
\* run shows the "no records found" error and halts: no row, no duplicate
\* annotation, no summary, no table, no CSV.
C4_NoRecordsHalts ==
    (AfterParse /\ (HeaderIdx(InputLines) = {} \/ records = <<>>)) =>
        /\ pc = "stopped"
        /\ message = "error_no_records"
        /\ records = <<>>
        /\ rows = <<>>
        /\ hash_to_names = <<>>
        /\ df = <<>>
        /\ ~summary.shown
        /\ table = <<>>
        /\ csv_rows = <<>>

\* A text with sequence lines and no header line has been parsed.
C4_Witness ==
    /\ pc = "stopped"
    /\ message = "error_no_records"
    /\ Len(InputLines) >= 2
    /\ Trim(fasta_input) # <<>>

---------------------------------------------------------------------------

\* The flag names in the documented order.
FlagOrder ==
    <<"INVALID_CHARS", "TOO_SHORT", "TOO_LONG", "TOO_MANY_N",
      "LOW_COMPLEXITY", "HOMOPOLYMER_RUN">>

\* The rule of flag f fires on row r under the thresholds of the run.
Fires(f, r) ==
    CASE f = "INVALID_CHARS" -> r.invalid_chars # <<>>
      [] f = "TOO_SHORT" -> r.length < min_len
      [] f = "TOO_LONG" -> r.length > max_len
      [] f = "TOO_MANY_N" -> r.n_percent > max_n_pct
      [] f = "LOW_COMPLEXITY" -> r.entropy < min_entropy
      [] f = "HOMOPOLYMER_RUN" -> r.max_homopolymer > max_homopolymer

ExpectedFlags(r) ==
    LET Test(f) == Fires(f, r) IN SelectSeq(FlagOrder, Test)

\* C6: the flags of a row are exactly the rules that fire on it (all
\* comparisons strict), each once, in the order INVALID_CHARS, TOO_SHORT,
\* TOO_LONG, TOO_MANY_N, LOW_COMPLEXITY, HOMOPOLYMER_RUN.
C6_FlagsAreFiringRules ==
    \A k \in 1..Len(rows) :
        /\ rows[k].flags = ExpectedFlags(rows[k])
        /\ rows[k].length = Len(records[k].seq)

\* A row whose length and longest run sit exactly on their thresholds, so
\* neither flag fires, while two other rules do fire.
C6_Witness ==
    \E k \in 1..Len(rows) :
        /\ rows[k].length = min_len
        /\ rows[k].max_homopolymer = max_homopolymer
        /\ rows[k].flags = <<"INVALID_CHARS", "LOW_COMPLEXITY">>

\* The length of the longest run of equal consecutive characters of s.
MaxRun(s) ==
    LET runs == {j - i + 1 : <<i, j>> \in
                    {p \in (1..Len(s)) \X (1..Len(s)) :
                        /\ p[1] <= p[2]
                        /\ \A m \in p[1]..p[2] : s[m] = s[p[1]]}}
    IN  IF runs = {} THEN 0 ELSE CHOOSE r \in runs : \A q \in runs : q <= r

\* C10: max_homopolymer is the length of the longest run of identical
\* consecutive characters of the cleaned sequence, N and invalid characters
\* counted like any other; it is 0 exactly for the empty sequence, 1 for a
\* one-character sequence, and never more than the length.
C10_LongestRun ==
    \A k \in 1..Len(rows) :
        LET s == records[k].seq
            h == rows[k].max_homopolymer
        IN  /\ h = MaxRun(s)
            /\ (h = 0) <=> (s = <<>>)
            /\ Len(s) = 1 => h = 1
            /\ h <= Len(s)

\* The longest run is a run of N or of an invalid character, it is neither
\* at the start nor the whole sequence.
C10_Witness ==
    \E k \in 1..Len(rows) :
        LET s == records[k].seq IN
        /\ Len(s) = 4
        /\ rows[k].max_homopolymer = 2
        /\ s[1] # s[2]
        /\ s[3] = s[4]
        /\ s[3] \notin DNA_ONLY

---------------------------------------------------------------------------

\* The rows wherever the run holds them.
AllRows ==
    SeqToSet(rows) \cup SeqToSet(df) \cup SeqToSet(table) \cup SeqToSet(csv_rows)

\* C8: every row has status PASS if and only if its flags field is empty,
\* and FAIL otherwise.
C8_PassIffNoFlags ==
    \A r \in AllRows :
        /\ r.status \in {"PASS", "FAIL"}
        /\ (r.status = "PASS") <=> (r.flags = <<>>)

\* A finished report with a passing row and a row that fails on one flag.
C8_Witness ==
    /\ pc = "done"
    /\ \E k \in 1..Len(table) : table[k].status = "PASS"
    /\ \E k \in 1..Len(table) :
          table[k].status = "FAIL" /\ Len(table[k].flags) = 1

\* C7: in a produced report pass_count + fail_count is the total shown,
\* which is the number of rows and the number of parsed records; no record
\* is dropped, merged or duplicated on the way, also when records share a
\* name or a sequence.
C7_CountsAddUp ==
    summary.shown =>
        /\ summary.pass_count + summary.fail_count = summary.total
        /\ summary.total = Len(records)
        /\ records = parse_fasta(fasta_input)
        /\ Len(rows) = Len(records)
        /\ Len(df) = Len(records)
        /\ Len(table) = Len(records)
        /\ Len(csv_rows) = Len(records)
        /\ \A k \in 1..Len(records) :
              /\ df[k].sequence_name = records[k].name
              /\ df[k].md5 = md5_hash(records[k].seq)
              /\ csv_rows[k] = df[k]
        /\ \A r \in SeqToSet(df) :
              Cardinality({k \in 1..Len(df) : df[k] = r})
                 = Cardinality({k \in 1..Len(table) : table[k] = r})

\* A produced report over records of which two share name and sequence, with
\* passing and failing rows.
C7_Witness ==
    /\ summary.shown
    /\ summary.pass_count >= 2
    /\ summary.fail_count >= 1
    /\ \E j, k \in 1..Len(records) : j # k /\ records[j] = records[k]
    /\ \E j, k \in 1..Len(records) :
          /\ records[j].name = records[k].name
          /\ records[j].seq # records[k].seq

---------------------------------------------------------------------------

\* The positions of the records whose content hash is that of row k.
HashGroup(k) == {j \in 1..Len(df) : df[j].md5 = df[k].md5}

\* The names of the records at the positions of S, in file order.
RECURSIVE NamesAt(_, _)
NamesAt(S, k) ==
    IF k > Len(df) THEN <<>>
    ELSE (IF k \in S THEN <<df[k].sequence_name>> ELSE <<>>) \o NamesAt(S, k + 1)

\* C2: a row whose content hash no other record shares has an empty
\* duplicates field, also when several records carry the same name.
C2_UniqueHashNoDuplicates ==
    ReportBuilt =>
        \A k \in 1..Len(df) :
            HashGroup(k) = {k} => df[k].duplicates = <<>>

\* C3: a row whose content hash another record shares lists, pipe-joined and
\* in first-seen order, the names of all records of its own hash group and of
\* no other record; rows with the same hash carry the same duplicates.
C3_DuplicatesAreOwnGroup ==
    ReportBuilt =>
        \A k \in 1..Len(df) :
            HashGroup(k) # {k} =>
                /\ df[k].duplicates = Join(Pipe, NamesAt(HashGroup(k), 1))
                /\ \A j \in HashGroup(k) : df[j].duplicates = df[k].duplicates

\* t is in the order of sort_values: status ascending, then name ascending.
Ordered(t) ==
    \A k \in 1..(Len(t) - 1) :
        \/ t[k].status = "FAIL" /\ t[k + 1].status = "PASS"
        \/ /\ t[k].status = t[k + 1].status
           /\ ~StrLess(t[k + 1].sequence_name, t[k].sequence_name)

\* C5: the rows of the displayed table and of the exported CSV are ordered
\* by status ascending (FAIL before PASS), then by sequence_name ascending,
\* one row per parsed record.
C5_TableAndCsvOrdered ==
    pc = "done" =>
        /\ Ordered(table)
        /\ Ordered(csv_rows)
        /\ Len(table) = Len(records)
        /\ Len(csv_rows) = Len(records)

====
